---- MODULE Spec2Model ----
(***************************************************************************)
(* Model of the ytdl-backend: the file cleanup scheduler                   *)
(* (backend/scheduler.py), the retrieval+transcode worker                  *)
(* (backend/downloader.py) and the request handler (backend/main.py).      *)
(*                                                                         *)
(* Time is counted in seconds.  It advances either by one hour or to the   *)
(* wake-up time of a sleeping cleanup loop, so that every sleep of the     *)
(* code (3600 s poll interval, 60 s backoff) ends at its exact deadline.   *)
(***************************************************************************)
EXTENDS Integers, Sequences, FiniteSets, TLC

\* ------------------------------------------------------------------ bounds
MaxHours    == 4      \* time horizon of the model, in hours
MaxRequests == 1      \* request ids; each owns video_<id>.* and output_<id>.mkv
MaxThreads  == 2      \* cleanup loop threads that can exist at once
MaxCallers  == 1      \* threads of control calling start() / stop()
MaxSchedules == 2     \* calls of schedule_file_cleanup

\* ------------------------------------------------------- program constants
Hour            == 3600   \* seconds per hour (timedelta(hours=..), 2 * 3600)
CleanupInterval == 3600   \* cleanup_interval default
BackoffSleep    == 60     \* time.sleep(60) after an error in the loop
NumStrategies   == 5      \* entries of _get_extraction_strategies()
MaxAgeHours     == 2      \* cutoff_time = time.time() - (2 * 3600)
DefaultTTL      == 1      \* cleanup_after_hours default

\* The clock stops before hour MaxHours + 1: a pass due at hour MaxHours and
\* its backoff retries still happen.
MaxTime  == MaxHours * Hour + (Hour - 1)
Requests == 1..MaxRequests
Threads  == 1..MaxThreads
Callers  == 1..MaxCallers

\* TTL arguments tried by the callers of schedule_file_cleanup (hours).
TTLs == {DefaultTTL, MaxAgeHours + 1}

\* File names of the downloads directory.
VideoFile(r)  == <<"video", r>>
OutputFile(r) == <<"output", r>>
Names == {VideoFile(r) : r \in Requests} \cup {OutputFile(r) : r \in Requests}

\* Paths: <<directory, file name>>.
DownloadsDir == "downloads"
Dirs  == {DownloadsDir, "elsewhere"}
Paths == Dirs \X Names
Join(dir, name) == <<dir, name>>
Basename(path)  == path[2]

Absent == -1          \* files[f] = Absent: no such file; else its mtime
None   == 0           \* cleanup_thread = None

VARIABLES
    now,              \* wall clock, seconds
    files,            \* downloads directory: name -> mtime, or Absent
    scheduled_files,  \* the dict, in insertion order: sequence of <<name, time>>
    running,          \* FileCleanupScheduler.running
    cleanup_thread,   \* FileCleanupScheduler.cleanup_thread
    loop,             \* thread -> state of its _cleanup_loop
    ctl,              \* caller -> position inside start() / stop()
    callers,          \* the callers that exist
    stop_called,      \* history: stop() has been entered at least once
    created,          \* history: the file names used so far (ids are never reused)
    sched_left,       \* calls of schedule_file_cleanup still to come
    fail_cycle,       \* history: name -> 0: no removal of it has failed; else the
                      \* poll cycles begun since the first failure, plus one
    req               \* request id -> state of its VideoDownloader.download_video

vars == <<now, files, scheduled_files, running, cleanup_thread, loop, ctl,
          callers, stop_called, created, sched_left, fail_cycle, req>>

\* ------------------------------------------------- the scheduled_files dict
Keys(d)      == {d[i][1] : i \in 1..Len(d)}
HasKey(d, k) == k \in Keys(d)
IndexOf(d, k) == CHOOSE i \in 1..Len(d) : d[i][1] = k
Lookup(d, k) == d[IndexOf(d, k)][2]

\* DictSet with the bug of keeping the value of a key already present.
DictSetKeepsFirst(d, k, v) == IF HasKey(d, k) THEN d ELSE Append(d, <<k, v>>)

\* d[k] = v: an existing key keeps its place, a new key goes last.
DictSet(d, k, v) ==
    IF HasKey(d, k)
    THEN [i \in 1..Len(d) |-> IF d[i][1] = k THEN <<k, v>> ELSE d[i]]
    ELSE Append(d, <<k, v>>)

\* del d[k], for a key that is present.
DictDel(d, k) == SelectSeq(d, LAMBDA e : e[1] # k)

\* ------------------------------------------------------------ file system
Exists(f) == files[f] # Absent

\* os.listdir: the names present, in the directory's (fixed) order.
RECURSIVE SetToSeq(_)
SetToSeq(S) ==
    IF S = {} THEN <<>>
    ELSE LET x == CHOOSE y \in S : TRUE IN <<x>> \o SetToSeq(S \ {x})
ListDir == SetToSeq({f \in Names : Exists(f)})

\* ------------------------------------------------------------ loop threads
\* The locals of a loop thread; they are dead outside a pass and kept at
\* their initial values there.
NoItem == <<>>
IdleLoop == [pc |-> "none", current_time |-> 0, di_used |-> 0, di_pos |-> 0,
             item |-> NoItem, files_to_remove |-> <<>>, cutoff_time |-> 0,
             listing |-> <<>>, wake |-> 0, sched_seen |-> 0]

Alive(t) == loop[t].pc \notin {"none", "done"}
LiveLoops == {t \in Threads : Alive(t)}
InPass(t) ==
    loop[t].pc \in {"exp_next", "exp_remove", "exp_del", "old_begin", "old_file"}

\* ------------------------------------------------------------- the worker
\* The locals of one call of download_video.  A strategy is named by its
\* position in the list; info and successful_strategy name the strategy
\* whose options produced them (None: not set); attempts is the history of
\* the strategy loop: <<strategy, outcome of extract_info>> per attempt.
\* A text (of an exception) is the set of the words it contains, among the
\* words the code tests texts for: error is the kind of the exception caught
\* by the except clause of download_video and text its text, message the
\* text of the exception download_video raises.  url and status belong to
\* the request handler around the call: the URL submitted and the HTTP
\* status of the response (None: no response yet).  transcode tells that
\* the transcoder is running, or how its run ended ("": it has not run).
Strategies == 1..NumStrategies
NoWords == {}
IdleReq == [pc |-> "idle", i |-> 1, info |-> None, successful_strategy |-> None,
            attempts |-> <<>>, download_opts |-> None,
            temp_video_path |-> NoItem, error |-> "", text |-> NoWords,
            message |-> NoWords, result |-> NoItem, url |-> "", status |-> None,
            transcode |-> ""]

\* The state after construction (main.py: the scheduler object, an empty
\* downloads directory), before the lifespan has called start().
Init ==
    /\ now = 0
    /\ files = [f \in Names |-> Absent]
    /\ scheduled_files = <<>>
    /\ running = FALSE
    /\ cleanup_thread = None
    /\ loop = [t \in Threads |-> IdleLoop]
    /\ ctl = [c \in Callers |-> "idle"]
    /\ callers = {1}
    /\ stop_called = FALSE
    /\ created = {VideoFile(r) : r \in Requests}
    /\ sched_left = 1
    /\ fail_cycle = [f \in Names |-> 0]
    /\ req = [r \in Requests |-> IdleReq]

\* The state after the lifespan's start() has returned: running is set and
\* the loop thread is about to test it.
InitLoop ==
    /\ now = 0
    /\ files = [f \in Names |-> Absent]
    /\ scheduled_files = <<>>
    /\ running = TRUE
    /\ cleanup_thread = 1
    /\ loop = [t \in Threads |-> IF t = 1 THEN [IdleLoop EXCEPT !.pc = "check"]
                                            ELSE IdleLoop]
    /\ ctl = [c \in Callers |-> "idle"]
    /\ callers = {1}
    /\ stop_called = FALSE
    /\ created = {}
    /\ sched_left = MaxSchedules
    /\ fail_cycle = [f \in Names |-> 0]
    /\ req = [r \in Requests |-> IdleReq]

\* ------------------------------------------------------ scheduler: the API
\* ctl[c] is the caller's position: inside start() ("start_set": past the
\* running test), inside stop() ("join"), or between calls, where it records
\* how the caller's latest call returned ("idle": no call yet, "started",
\* "start_noop": start() returned early, "stopped").
BetweenCalls(c) == ctl[c] \in {"idle", "started", "start_noop", "stopped"}

\* start() with the bug of never returning early.
StartNeverReturnsEarly == FALSE

\* start(): "if self.running: return".
StartReturnsEarly == running

\* start(), first half: the running test.  A free thread slot bounds the model.
StartCheck(c) ==
    /\ c \in callers
    /\ BetweenCalls(c)
    /\ \E t \in Threads : ~Alive(t)
    /\ IF StartReturnsEarly
       THEN /\ ctl' = [ctl EXCEPT ![c] = "start_noop"]
            /\ UNCHANGED <<now, files, scheduled_files, running, cleanup_thread,
                           loop, callers, stop_called, created, sched_left, fail_cycle,
                           req>>
       ELSE /\ ctl' = [ctl EXCEPT ![c] = "start_set"]
            /\ UNCHANGED <<now, files, scheduled_files, running, cleanup_thread,
                           loop, callers, stop_called, created, sched_left, fail_cycle,
                           req>>

\* start(), second half: running = True, create and start the thread.
StartSet(c) ==
    /\ ctl[c] = "start_set"
    /\ \E t \in Threads : ~Alive(t)
    /\ LET t == CHOOSE u \in Threads : ~Alive(u) IN
         /\ running' = TRUE
         /\ cleanup_thread' = t
         /\ loop' = [loop EXCEPT ![t] = [IdleLoop EXCEPT !.pc = "check"]]
    /\ ctl' = [ctl EXCEPT ![c] = "started"]
    /\ UNCHANGED <<now, files, scheduled_files, callers, stop_called, created,
                   sched_left, fail_cycle, req>>

\* stop(): running = False, then join(timeout=5) if a thread was ever created.
Stop(c) ==
    /\ c \in callers
    /\ BetweenCalls(c)
    /\ running' = FALSE
    /\ stop_called' = TRUE
    /\ ctl' = [ctl EXCEPT ![c] = IF cleanup_thread # None THEN "join" ELSE "stopped"]
    /\ UNCHANGED <<now, files, scheduled_files, cleanup_thread, loop, callers,
                   created, sched_left, fail_cycle, req>>

\* join(timeout=5) returns: the thread has ended, or the five seconds are over
\* (whichever the thread's progress makes happen first).
StopJoin(c) ==
    /\ ctl[c] = "join"
    /\ \/ ~Alive(cleanup_thread)
       \/ Alive(cleanup_thread)
    /\ ctl' = [ctl EXCEPT ![c] = "stopped"]
    /\ UNCHANGED <<now, files, scheduled_files, running, cleanup_thread, loop,
                   callers, stop_called, created, sched_left, fail_cycle, req>>

\* The cleanup time with the bug of counting cleanup_after_hours in minutes.
CleanupTimeInMinutes(t, cleanup_after_hours) == t + cleanup_after_hours * 60

\* cleanup_time = datetime.now() + timedelta(hours=cleanup_after_hours)
CleanupTime(t, cleanup_after_hours) == t + cleanup_after_hours * Hour

\* The body of schedule_file_cleanup: the entry of the file's base name is
\* set to the cleanup time.  (sched_left bounds the calls of the model.)
Register(filepath, cleanup_after_hours) ==
    /\ sched_left > 0
    /\ sched_left' = sched_left - 1
    /\ scheduled_files' = DictSet(scheduled_files, Basename(filepath),
                                  CleanupTime(now, cleanup_after_hours))

\* schedule_file_cleanup(filepath, cleanup_after_hours)
ScheduleFileCleanup(filepath, cleanup_after_hours) ==
    /\ Register(filepath, cleanup_after_hours)
    /\ UNCHANGED <<now, files, running, cleanup_thread, loop, ctl, callers,
                   stop_called, created, fail_cycle, req>>

\* ----------------------------------------------------- scheduler: the loop
\* "if current_time >= scheduled_time"
IsExpired(current_time, scheduled_time) == current_time >= scheduled_time

\* The cutoff with the bug of counting the maximum age in days.
CutoffTimeInDays(t) == t - MaxAgeHours * 24 * Hour

\* "cutoff_time = time.time() - (2 * 3600)"
CutoffTime(t) == t - MaxAgeHours * Hour

\* The age test with the bug of a comparison the wrong way round.
IsOldFlipped(file_mtime, cutoff_time) == file_mtime > cutoff_time

\* "if file_mtime < cutoff_time"
IsOld(file_mtime, cutoff_time) == file_mtime < cutoff_time

\* History: a new poll cycle begins; a removal of f (by the loop, or by the
\* worker) fails.
CycleBegins == [f \in Names |-> IF fail_cycle[f] \in {1, 2} THEN fail_cycle[f] + 1
                                ELSE fail_cycle[f]]
RemovalFails(f) == [fail_cycle EXCEPT ![f] = IF @ = 0 THEN 1 ELSE @]

\* The loop with the bug of ending on an error instead of backing off.
BackoffEndsLoop(t) == [IdleLoop EXCEPT !.pc = "done"]

\* The except clause of _cleanup_loop: log, time.sleep(60).
Backoff(t) == [IdleLoop EXCEPT !.pc = "backoff", !.wake = now + BackoffSleep]

\* The end of the try block of _cleanup_loop: time.sleep(self.cleanup_interval).
Sleep(t) == [IdleLoop EXCEPT !.pc = "sleep", !.wake = now + CleanupInterval]

\* The loop with the bug of "while True:".
LoopContinuesAlways == TRUE

\* "while self.running:"
LoopContinues == running

\* "while self.running:", and the first lines of _cleanup_expired_files:
\* current_time, files_to_remove, the iterator over scheduled_files.items().
LoopCheck(t) ==
    /\ loop[t].pc = "check"
    /\ IF LoopContinues
       THEN /\ loop' = [loop EXCEPT ![t] = [@ EXCEPT !.pc = "exp_next",
                                                     !.current_time = now,
                                                     !.files_to_remove = <<>>,
                                                     !.di_used = Len(scheduled_files),
                                                     !.di_pos = 1,
                                                     !.sched_seen = sched_left]]
            /\ fail_cycle' = CycleBegins
       ELSE /\ loop' = [loop EXCEPT ![t] = [IdleLoop EXCEPT !.pc = "done"]]
            /\ UNCHANGED fail_cycle
    /\ UNCHANGED <<now, files, scheduled_files, running, cleanup_thread, ctl,
                   callers, stop_called, created, sched_left, req>>

\* One step of "for filename, scheduled_time in self.scheduled_files.items()":
\* the iterator raises RuntimeError when the dict changed size.
ExpNext(t) ==
    /\ loop[t].pc = "exp_next"
    /\ IF Len(scheduled_files) # loop[t].di_used
       THEN loop' = [loop EXCEPT ![t] = Backoff(t)]
       ELSE IF loop[t].di_pos > Len(scheduled_files)
       THEN loop' = [loop EXCEPT ![t] = [@ EXCEPT !.pc = "exp_del", !.item = NoItem]]
       ELSE LET e == scheduled_files[loop[t].di_pos] IN
            loop' = [loop EXCEPT ![t] =
                       [@ EXCEPT !.di_pos = @ + 1,
                                 !.item = IF IsExpired(loop[t].current_time, e[2])
                                          THEN e ELSE NoItem,
                                 !.pc = IF IsExpired(loop[t].current_time, e[2])
                                        THEN "exp_remove" ELSE "exp_next"]]
    /\ UNCHANGED <<now, files, scheduled_files, running, cleanup_thread, ctl,
                   callers, stop_called, created, sched_left, fail_cycle, req>>

\* ExpRemove with the bug of no exists() test and no try around os.remove:
\* an absent file raises into the loop's except clause.
ExpRemoveRaises(t) ==
    /\ loop[t].pc = "exp_remove"
    /\ LET filename == loop[t].item[1] IN
       IF Exists(filename)
       THEN /\ files' = [files EXCEPT ![filename] = Absent]
            /\ loop' = [loop EXCEPT ![t] =
                          [@ EXCEPT !.pc = "exp_next", !.item = NoItem,
                                    !.files_to_remove = Append(@, filename)]]
       ELSE /\ loop' = [loop EXCEPT ![t] = Backoff(t)]
            /\ UNCHANGED files
    /\ UNCHANGED <<now, scheduled_files, running, cleanup_thread, ctl, callers,
                   stop_called, created, sched_left, fail_cycle, req>>

\* ExpRemove with the bug of keeping the entry when the removal fails.
ExpRemoveKeepsFailed(t) ==
    /\ loop[t].pc = "exp_remove"
    /\ LET filename == loop[t].item[1] IN
       \/ /\ Exists(filename)
          /\ files' = [files EXCEPT ![filename] = Absent]
          /\ loop' = [loop EXCEPT ![t] =
                        [@ EXCEPT !.pc = "exp_next", !.item = NoItem,
                                  !.files_to_remove = Append(@, filename)]]
          /\ UNCHANGED fail_cycle
       \/ /\ Exists(filename)
          /\ fail_cycle' = RemovalFails(filename)
          /\ loop' = [loop EXCEPT ![t] = [@ EXCEPT !.pc = "exp_next", !.item = NoItem]]
          /\ UNCHANGED files
       \/ /\ ~Exists(filename)
          /\ loop' = [loop EXCEPT ![t] =
                        [@ EXCEPT !.pc = "exp_next", !.item = NoItem,
                                  !.files_to_remove = Append(@, filename)]]
          /\ UNCHANGED <<files, fail_cycle>>
    /\ UNCHANGED <<now, scheduled_files, running, cleanup_thread, ctl, callers,
                   stop_called, created, sched_left, req>>

\* The body for an expired entry: remove the file if it exists (the removal
\* may fail, which is logged), then files_to_remove.append(filename).
ExpRemove(t) ==
    /\ loop[t].pc = "exp_remove"
    /\ LET filename == loop[t].item[1] IN
       /\ \/ /\ Exists(filename)
             /\ files' = [files EXCEPT ![filename] = Absent]
             /\ UNCHANGED fail_cycle
          \/ /\ Exists(filename)
             /\ fail_cycle' = RemovalFails(filename)
             /\ UNCHANGED files
          \/ /\ ~Exists(filename)
             /\ UNCHANGED <<files, fail_cycle>>
       /\ loop' = [loop EXCEPT ![t] =
                     [@ EXCEPT !.pc = "exp_next", !.item = NoItem,
                               !.files_to_remove = Append(@, filename)]]
    /\ UNCHANGED <<now, scheduled_files, running, cleanup_thread, ctl, callers,
                   stop_called, created, sched_left, req>>

\* One step of "for filename in files_to_remove: del self.scheduled_files[filename]";
\* del raises KeyError for a key that is gone.
ExpDel(t) ==
    /\ loop[t].pc = "exp_del"
    /\ IF loop[t].files_to_remove = <<>>
       THEN /\ loop' = [loop EXCEPT ![t] = [@ EXCEPT !.pc = "old_begin"]]
            /\ UNCHANGED scheduled_files
       ELSE LET filename == Head(loop[t].files_to_remove) IN
            IF HasKey(scheduled_files, filename)
            THEN /\ scheduled_files' = DictDel(scheduled_files, filename)
                 /\ loop' = [loop EXCEPT ![t] = [@ EXCEPT !.files_to_remove = Tail(@)]]
            ELSE /\ loop' = [loop EXCEPT ![t] = Backoff(t)]
                 /\ UNCHANGED scheduled_files
    /\ UNCHANGED <<now, files, running, cleanup_thread, ctl, callers, stop_called,
                   created, sched_left, fail_cycle, req>>

\* The first lines of _cleanup_old_files: the directory exists (main.py makes
\* it); cutoff_time and os.listdir.
OldBegin(t) ==
    /\ loop[t].pc = "old_begin"
    /\ loop' = [loop EXCEPT ![t] = [@ EXCEPT !.pc = "old_file",
                                              !.cutoff_time = CutoffTime(now),
                                              !.listing = ListDir]]
    /\ UNCHANGED <<now, files, scheduled_files, running, cleanup_thread, ctl,
                   callers, stop_called, created, sched_left, fail_cycle, req>>

\* OldFile with the bug of no try around os.remove: a failed removal raises
\* into the except clause of _cleanup_old_files, which ends the sweep.
OldFileAbortsOnFailure(t) ==
    /\ loop[t].pc = "old_file"
    /\ IF loop[t].listing = <<>>
       THEN /\ loop' = [loop EXCEPT ![t] = Sleep(t)]
            /\ UNCHANGED <<files, fail_cycle>>
       ELSE LET filename == Head(loop[t].listing) IN
            IF Exists(filename) /\ IsOld(files[filename], loop[t].cutoff_time)
            THEN \/ /\ files' = [files EXCEPT ![filename] = Absent]
                    /\ loop' = [loop EXCEPT ![t] = [@ EXCEPT !.listing = Tail(@)]]
                    /\ UNCHANGED fail_cycle
                 \/ /\ fail_cycle' = RemovalFails(filename)
                    /\ loop' = [loop EXCEPT ![t] = Sleep(t)]
                    /\ UNCHANGED files
            ELSE /\ loop' = [loop EXCEPT ![t] = [@ EXCEPT !.listing = Tail(@)]]
                 /\ UNCHANGED <<files, fail_cycle>>
    /\ UNCHANGED <<now, scheduled_files, running, cleanup_thread, ctl, callers,
                   stop_called, created, sched_left, req>>

\* One step of "for filename in os.listdir(...)": isfile, getmtime, the age
\* test and the removal (which may fail, which is logged); after the last
\* name the function returns and the loop sleeps.
OldFile(t) ==
    /\ loop[t].pc = "old_file"
    /\ IF loop[t].listing = <<>>
       THEN /\ loop' = [loop EXCEPT ![t] = Sleep(t)]
            /\ UNCHANGED <<files, fail_cycle>>
       ELSE LET filename == Head(loop[t].listing) IN
            /\ loop' = [loop EXCEPT ![t] = [@ EXCEPT !.listing = Tail(@)]]
            /\ IF Exists(filename) /\ IsOld(files[filename], loop[t].cutoff_time)
               THEN \/ /\ files' = [files EXCEPT ![filename] = Absent]
                       /\ UNCHANGED fail_cycle
                    \/ /\ fail_cycle' = RemovalFails(filename)
                       /\ UNCHANGED files
               ELSE UNCHANGED <<files, fail_cycle>>
    /\ UNCHANGED <<now, scheduled_files, running, cleanup_thread, ctl, callers,
                   stop_called, created, sched_left, req>>

\* time.sleep returns.
LoopWake(t) ==
    /\ loop[t].pc \in {"sleep", "backoff"}
    /\ now >= loop[t].wake
    /\ loop' = [loop EXCEPT ![t] = [IdleLoop EXCEPT !.pc = "check"]]
    /\ UNCHANGED <<now, files, scheduled_files, running, cleanup_thread, ctl,
                   callers, stop_called, created, sched_left, fail_cycle, req>>

\* ------------------------------------------------------ worker: the steps
\* What a call of the retrieval tool's extract_info does: it returns the
\* metadata ("info"), returns nothing ("empty"), raises an error whose text
\* has 'bot' or 'sign in' in it ("blocked"), or raises another error.
ExtractOutcomes == {"info", "empty", "blocked", "error"}

\* ydl.download: the file is written ("file"), the call returns without a
\* file ("nofile"), or it raises (blocked, or another error).
DownloadOutcomes == {"file", "nofile", "blocked", "error"}

\* The transcoder: exit status 0 ("ok"), another status ("nonzero"), or no
\* ffmpeg binary to run ("notfound").
ConvertOutcomes == {"ok", "nonzero", "notfound"}

\* The error raised for a tool outcome.
ToolError(o) == IF o = "blocked" THEN "tool_blocked" ELSE "tool_error"

\* The texts of the tool's errors: a blocked error's text has 'bot' or
\* 'sign in' in it; the text of another error tells of an unavailable, a
\* private, an age restricted or a copyright protected video, or has none of
\* the words tested.
BlockedTexts == {{"bot"}, {"sign in"}}
OtherTexts == {{"unavailable"}, {"private"}, {"age", "restricted"}, {"copyright"},
               NoWords}
TextsOf(o) == IF o = "blocked" THEN BlockedTexts
              ELSE IF o = "error" THEN OtherTexts
              ELSE {NoWords}

\* "All extraction strategies failed. YouTube may be temporarily blocking
\* this server."
AllFailedText == {"extraction strategies failed"}

\* The strategy loop with the bug of raising every error that is not a
\* blocked one, whatever the strategy.
OnExtractErrorRaisesOthers(o, i) ==
    IF o = "blocked" THEN "continue" ELSE "raise"

\* The strategy loop with the bug of re-raising a blocked error.
OnExtractErrorRaisesBlocked(o, i) ==
    IF o = "blocked" \/ i = NumStrategies THEN "raise" ELSE "continue"

\* The except clause of the strategy loop: a blocked error continues with
\* the next strategy; another error is raised if this was the last strategy
\* ("elif i == len(strategies) - 1: raise e") and continues otherwise.
OnExtractError(o, i) ==
    IF o = "blocked" THEN "continue"
    ELSE IF i = NumStrategies THEN "raise"
    ELSE "continue"

\* The classification of the except clause of download_video: the tests of
\* the text, in their order, and the text of the exception raised (the
\* words the handler tests for that it contains).  "Download failed: ..."
\* carries the text caught.
Classify(text) ==
    IF "bot" \in text \/ "sign in" \in text
    THEN {"YouTube is currently blocking"}
    ELSE IF "unavailable" \in text
    THEN {"video is unavailable", "unavailable", "private"}
    ELSE IF "age" \in text /\ "restricted" \in text
    THEN {"age-restricted", "age", "restricted"}
    ELSE IF "copyright" \in text
    THEN {"copyright"}
    ELSE IF "extraction strategies failed" \in text
    THEN {"YouTube is temporarily blocking"}
    ELSE {"Download failed"} \cup text

\* download_video is called: video_id, the strategy list, the loop begins.
CallDownload(r) ==
    /\ req[r].pc = "idle"
    /\ req' = [req EXCEPT ![r] = [IdleReq EXCEPT !.pc = "extract"]]
    /\ UNCHANGED <<now, files, scheduled_files, running, cleanup_thread, loop,
                   ctl, callers, stop_called, created, sched_left, fail_cycle>>

\* One iteration of "for i, strategy in enumerate(strategies)": extract_info
\* with the options of strategy i; "if info: successful_strategy = ydl_opts;
\* break"; the except clause; and, when the loop ends without a break,
\* "if not info or not successful_strategy: raise".
Extract(r) ==
    /\ req[r].pc = "extract"
    /\ \E o \in ExtractOutcomes : \E txt \in TextsOf(o) :
         LET i == req[r].i
             seen == [req[r] EXCEPT !.attempts = Append(@, <<i, o>>)]
             goes_on == IF i < NumStrategies
                        THEN [seen EXCEPT !.i = i + 1]
                        ELSE [seen EXCEPT !.pc = "except", !.error = "all_failed",
                                          !.text = AllFailedText]
         IN req' = [req EXCEPT ![r] =
                IF o = "info"
                THEN [seen EXCEPT !.info = i, !.successful_strategy = i,
                                  !.pc = "download"]
                ELSE IF o = "empty" THEN goes_on
                ELSE IF OnExtractError(o, i) = "continue" THEN goes_on
                ELSE [seen EXCEPT !.pc = "except", !.error = ToolError(o),
                                  !.text = txt]]
    /\ UNCHANGED <<now, files, scheduled_files, running, cleanup_thread, loop,
                   ctl, callers, stop_called, created, sched_left, fail_cycle>>

\* "ydl_opts = successful_strategy.copy()", ydl.download, and the search of
\* the directory for the file video_<id>.*.  A download that raises may
\* leave a partial file behind (temp_video_path is not set then).
Download(r) ==
    /\ req[r].pc = "download"
    /\ \E o \in DownloadOutcomes, partial \in BOOLEAN : \E txt \in TextsOf(o) :
         LET begun == [req[r] EXCEPT !.download_opts = req[r].successful_strategy]
         IN /\ partial => o \in {"blocked", "error"}
            /\ IF o = "file" \/ partial
               THEN /\ files' = [files EXCEPT ![VideoFile(r)] = now]
                    /\ created' = created \cup {VideoFile(r)}
               ELSE UNCHANGED <<files, created>>
            /\ req' = [req EXCEPT ![r] =
                   IF o = "file"
                   THEN [begun EXCEPT !.temp_video_path = VideoFile(r),
                                      !.pc = "convert"]
                   ELSE IF o = "nofile"
                   THEN [begun EXCEPT !.pc = "except", !.error = "no_video_file"]
                   ELSE [begun EXCEPT !.pc = "except", !.error = ToolError(o),
                                      !.text = txt]]
    /\ UNCHANGED <<now, scheduled_files, running, cleanup_thread, loop, ctl,
                   callers, stop_called, sched_left, fail_cycle>>

\* _convert_to_hevc with the bug of not testing the exit status.
ConvertRaisesNever(o) == FALSE

\* "if process.returncode != 0: raise"
ConvertRaises(o) == o # "ok"

\* _convert_to_hevc(temp_video_path, output_path), first half:
\* create_subprocess_exec raises FileNotFoundError when there is no ffmpeg
\* binary, or starts the process, which opens its input if the file is
\* there ("running") and cannot if it is not ("no_input").
ConvertStart(r) ==
    /\ req[r].pc = "convert"
    /\ \E found \in BOOLEAN :
         req' = [req EXCEPT ![r] =
                   IF found
                   THEN [@ EXCEPT !.pc = "converting",
                                  !.transcode = IF Exists(req[r].temp_video_path)
                                                THEN "running" ELSE "no_input"]
                   ELSE [@ EXCEPT !.pc = "except", !.transcode = "notfound",
                                  !.error = "ffmpeg_not_found"]]
    /\ UNCHANGED <<now, files, scheduled_files, running, cleanup_thread, loop,
                   ctl, callers, stop_called, created, sched_left, fail_cycle>>

\* _convert_to_hevc, second half: the process exits (communicate returns)
\* and its status is tested.  Status 0 needs the input to have been opened
\* and leaves the output file written; a run that fails may leave a partial
\* output file behind.
ConvertExit(r) ==
    /\ req[r].pc = "converting"
    /\ \E o \in ConvertOutcomes \ {"notfound"}, partial \in BOOLEAN :
         /\ o = "ok" => req[r].transcode = "running"
         /\ partial => o = "nonzero"
         /\ IF o = "ok" \/ partial
            THEN /\ files' = [files EXCEPT ![OutputFile(r)] = now]
                 /\ created' = created \cup {OutputFile(r)}
            ELSE UNCHANGED <<files, created>>
         /\ req' = [req EXCEPT ![r] =
                IF ConvertRaises(o)
                THEN [@ EXCEPT !.pc = "except", !.transcode = o,
                               !.error = "conversion_failed"]
                ELSE [@ EXCEPT !.pc = "finish", !.transcode = o]]
    /\ UNCHANGED <<now, scheduled_files, running, cleanup_thread, loop, ctl,
                   callers, stop_called, sched_left, fail_cycle>>

\* The result dict: the metadata of info, the name and the path of the output.
Result(r) == [info |-> req[r].info, filename |-> OutputFile(r),
              filepath |-> Join(DownloadsDir, OutputFile(r))]

\* After the transcode: remove the temporary file if it exists (a removal
\* that fails raises), test that the output exists, return the result.
Finish(r) ==
    /\ req[r].pc = "finish"
    /\ LET temp == req[r].temp_video_path
           returns == IF Exists(OutputFile(r))
                      THEN [req[r] EXCEPT !.pc = "returned", !.result = Result(r)]
                      ELSE [req[r] EXCEPT !.pc = "except", !.error = "no_output_file"]
       IN IF Exists(temp)
          THEN \/ /\ files' = [files EXCEPT ![temp] = Absent]
                  /\ req' = [req EXCEPT ![r] = returns]
                  /\ UNCHANGED fail_cycle
               \/ /\ req' = [req EXCEPT ![r] = [@ EXCEPT !.pc = "except",
                                                        !.error = "remove_failed"]]
                  /\ fail_cycle' = RemovalFails(temp)
                  /\ UNCHANGED files
          ELSE /\ req' = [req EXCEPT ![r] = returns]
               /\ UNCHANGED <<files, fail_cycle>>
    /\ UNCHANGED <<now, scheduled_files, running, cleanup_thread, loop, ctl,
                   callers, stop_called, created, sched_left>>

\* The except clause of download_video: remove the temporary file if it is
\* set and exists (a removal that fails is passed over), classify, raise.
Except(r) ==
    /\ req[r].pc = "except"
    /\ LET temp == req[r].temp_video_path IN
       IF temp # NoItem /\ Exists(temp)
       THEN \/ /\ files' = [files EXCEPT ![temp] = Absent]
               /\ UNCHANGED fail_cycle
            \/ /\ fail_cycle' = RemovalFails(temp)
               /\ UNCHANGED files
       ELSE UNCHANGED <<files, fail_cycle>>
    /\ req' = [req EXCEPT ![r] = [@ EXCEPT !.pc = "raised",
                                           !.message = Classify(req[r].text)]]
    /\ UNCHANGED <<now, scheduled_files, running, cleanup_thread, loop, ctl,
                   callers, stop_called, created, sched_left>>

\* ------------------------------------------------------ the request handler
\* The URLs submitted: one that names 'youtube.com' or 'youtu.be', and one
\* that names neither.
URLs == {"youtube.com", "example.com"}
IsYouTube(url) == url = "youtube.com"

\* The text of the HTTPException raised for a URL that is not YouTube's
\* ("400: Please provide a valid YouTube URL", or no text): it has none of
\* the words tested.
RejectedText == NoWords

\* The except clause of the handler: the tests of the text of the exception
\* caught, in their order, and the status of the HTTPException raised.
StatusOf(msg) ==
    IF "YouTube is currently blocking" \in msg THEN 429
    ELSE IF "Video unavailable" \in msg \/ "video is unavailable" \in msg THEN 404
    ELSE IF "age-restricted" \in msg THEN 400
    ELSE IF "private" \in msg THEN 400
    ELSE IF "copyright" \in msg THEN 400
    ELSE 500

\* POST /api/download: the URL test, inside the try block, and the call of
\* the worker for a YouTube URL.
Submit(r, url) ==
    /\ req[r].pc = "idle"
    /\ req' = [req EXCEPT ![r] =
                 IF IsYouTube(url)
                 THEN [IdleReq EXCEPT !.pc = "extract", !.url = url]
                 ELSE [IdleReq EXCEPT !.pc = "rejected", !.url = url,
                                      !.error = "invalid_url",
                                      !.message = RejectedText]]
    /\ UNCHANGED <<now, files, scheduled_files, running, cleanup_thread, loop,
                   ctl, callers, stop_called, created, sched_left, fail_cycle>>

\* The worker has returned: background_tasks.add_task(schedule_file_cleanup,
\* result['filepath']) and the response (the task runs after it).
Respond(r) ==
    /\ req[r].pc = "returned"
    /\ req' = [req EXCEPT ![r] = [@ EXCEPT !.pc = "responded", !.status = 200]]
    /\ UNCHANGED <<now, files, scheduled_files, running, cleanup_thread, loop,
                   ctl, callers, stop_called, created, sched_left, fail_cycle>>

\* The background task runs: schedule_file_cleanup(result['filepath']), with
\* the default cleanup_after_hours.
BgSchedule(r) ==
    /\ req[r].pc = "responded"
    /\ Register(req[r].result.filepath, DefaultTTL)
    /\ req' = [req EXCEPT ![r] = [@ EXCEPT !.pc = "done"]]
    /\ UNCHANGED <<now, files, running, cleanup_thread, loop, ctl, callers,
                   stop_called, created, fail_cycle>>

\* "except Exception as e": the exception of the worker, or the
\* HTTPException of the URL test, is answered with the status of its text.
HandlerExcept(r) ==
    /\ req[r].pc \in {"raised", "rejected"}
    /\ req' = [req EXCEPT ![r] = [@ EXCEPT !.pc = "failed",
                                           !.status = StatusOf(req[r].message)]]
    /\ UNCHANGED <<now, files, scheduled_files, running, cleanup_thread, loop,
                   ctl, callers, stop_called, created, sched_left, fail_cycle>>

\* ------------------------------------------------------------- environment
\* A file appears in the downloads directory (written by the worker).
CreateFile(f) ==
    /\ f \notin created
    /\ created' = created \cup {f}
    /\ files' = [files EXCEPT ![f] = now]
    /\ UNCHANGED <<now, scheduled_files, running, cleanup_thread, loop, ctl,
                   callers, stop_called, sched_left, fail_cycle, req>>

\* Time passes: one hour, or up to the next deadline of a sleeping loop if
\* that comes first.  A pass of the loop and a call of start() or stop()
\* (whose join waits 5 s at most) take no time on this clock, and a sleep
\* ends at its deadline.
Sleeping(t) == loop[t].pc \in {"sleep", "backoff"}
Deadlines == {loop[t].wake : t \in {u \in Threads : Sleeping(u)}}
NextTime ==
    IF \E d \in Deadlines : d < now + Hour
    THEN CHOOSE d \in Deadlines : \A e \in Deadlines : d <= e
    ELSE now + Hour

Tick ==
    /\ \A t \in Threads : Sleeping(t) \/ ~Alive(t)
    /\ \A t \in Threads : Sleeping(t) => now < loop[t].wake
    /\ \A c \in Callers : BetweenCalls(c)
    /\ NextTime <= MaxTime
    /\ now' = NextTime
    /\ UNCHANGED <<files, scheduled_files, running, cleanup_thread, loop, ctl,
                   callers, stop_called, created, sched_left, fail_cycle, req>>

Next ==
    \/ \E c \in Callers : StartCheck(c)
    \/ \E c \in Callers : StartSet(c)
    \/ \E c \in Callers : Stop(c)
    \/ \E c \in Callers : StopJoin(c)
    \/ \E p \in Paths, h \in TTLs : ScheduleFileCleanup(p, h)
    \/ \E t \in Threads : LoopCheck(t)
    \/ \E t \in Threads : ExpNext(t)
    \/ \E t \in Threads : ExpRemove(t)
    \/ \E t \in Threads : ExpDel(t)
    \/ \E t \in Threads : OldBegin(t)
    \/ \E t \in Threads : OldFile(t)
    \/ \E t \in Threads : LoopWake(t)
    \/ \E f \in Names : CreateFile(f)
    \/ Tick

\* The whole scheduler: start(), stop(), the loops, one registration.
Spec == Init /\ [][Next]_vars

\* The started scheduler: its one loop, stop(), and the callers registering
\* files.
NextLoop ==
    \/ \E c \in Callers : Stop(c)
    \/ \E c \in Callers : StopJoin(c)
    \/ \E p \in Paths, h \in TTLs : ScheduleFileCleanup(p, h)
    \/ \E t \in Threads : LoopCheck(t)
    \/ \E t \in Threads : ExpNext(t)
    \/ \E t \in Threads : ExpRemove(t)
    \/ \E t \in Threads : ExpDel(t)
    \/ \E t \in Threads : OldBegin(t)
    \/ \E t \in Threads : OldFile(t)
    \/ \E t \in Threads : LoopWake(t)
    \/ \E f \in Names : CreateFile(f)
    \/ Tick

SpecLoop == InitLoop /\ [][NextLoop]_vars

\* The started scheduler with one registration to come and one file (the
\* output file) to be written, under fair scheduling: a loop thread that can
\* take a step eventually takes it, the join of stop() returns, and time does
\* not stop while it can pass (that a caller makes calls forever does not
\* hold the clock).
InitLive ==
    /\ now = 0
    /\ files = [f \in Names |-> Absent]
    /\ scheduled_files = <<>>
    /\ running = TRUE
    /\ cleanup_thread = 1
    /\ loop = [t \in Threads |-> IF t = 1 THEN [IdleLoop EXCEPT !.pc = "check"]
                                            ELSE IdleLoop]
    /\ ctl = [c \in Callers |-> "idle"]
    /\ callers = {1}
    /\ stop_called = FALSE
    /\ created = {VideoFile(r) : r \in Requests}
    /\ sched_left = 1
    /\ fail_cycle = [f \in Names |-> 0]
    /\ req = [r \in Requests |-> IdleReq]

LoopStep(t) ==
    \/ LoopCheck(t) \/ ExpNext(t) \/ ExpRemove(t) \/ ExpDel(t)
    \/ OldBegin(t) \/ OldFile(t) \/ LoopWake(t)

SpecLive ==
    /\ InitLive
    /\ [][NextLoop]_vars
    /\ \A t \in Threads : WF_vars(LoopStep(t))
    /\ \A c \in Callers : WF_vars(StopJoin(c))
    /\ SF_vars(Tick)

\* The worker alone: the calls of download_video, with the scheduler not
\* started and nothing registered.
InitWorker ==
    /\ now = 0
    /\ files = [f \in Names |-> Absent]
    /\ scheduled_files = <<>>
    /\ running = FALSE
    /\ cleanup_thread = None
    /\ loop = [t \in Threads |-> IdleLoop]
    /\ ctl = [c \in Callers |-> "idle"]
    /\ callers = {1}
    /\ stop_called = FALSE
    /\ created = {}
    /\ sched_left = 0
    /\ fail_cycle = [f \in Names |-> 0]
    /\ req = [r \in Requests |-> IdleReq]

NextWorker ==
    \/ \E r \in Requests : CallDownload(r)
    \/ \E r \in Requests : Extract(r)
    \/ \E r \in Requests : Download(r)
    \/ \E r \in Requests : ConvertStart(r)
    \/ \E r \in Requests : ConvertExit(r)
    \/ \E r \in Requests : Finish(r)
    \/ \E r \in Requests : Except(r)

SpecWorker == InitWorker /\ [][NextWorker]_vars

\* The handler and its worker, with the scheduler not started: the requests
\* submitted, each with its registration.
InitHandler ==
    /\ now = 0
    /\ files = [f \in Names |-> Absent]
    /\ scheduled_files = <<>>
    /\ running = FALSE
    /\ cleanup_thread = None
    /\ loop = [t \in Threads |-> IdleLoop]
    /\ ctl = [c \in Callers |-> "idle"]
    /\ callers = {1}
    /\ stop_called = FALSE
    /\ created = {}
    /\ sched_left = MaxRequests
    /\ fail_cycle = [f \in Names |-> 0]
    /\ req = [r \in Requests |-> IdleReq]

NextHandler ==
    \/ \E r \in Requests, url \in URLs : Submit(r, url)
    \/ \E r \in Requests : Extract(r)
    \/ \E r \in Requests : Download(r)
    \/ \E r \in Requests : ConvertStart(r)
    \/ \E r \in Requests : ConvertExit(r)
    \/ \E r \in Requests : Finish(r)
    \/ \E r \in Requests : Except(r)
    \/ \E r \in Requests : Respond(r)
    \/ \E r \in Requests : BgSchedule(r)
    \/ \E r \in Requests : HandlerExcept(r)

SpecHandler == InitHandler /\ [][NextHandler]_vars

\* The handler and its worker while time passes, the scheduler not started,
\* under fair scheduling of the handler's last steps: the response is
\* returned once the worker has, and the background task runs once the
\* response is out.
NextHandlerTimed ==
    \/ \E r \in Requests, url \in URLs : Submit(r, url)
    \/ \E r \in Requests : Extract(r)
    \/ \E r \in Requests : Download(r)
    \/ \E r \in Requests : ConvertStart(r)
    \/ \E r \in Requests : ConvertExit(r)
    \/ \E r \in Requests : Finish(r)
    \/ \E r \in Requests : Except(r)
    \/ \E r \in Requests : Respond(r)
    \/ \E r \in Requests : BgSchedule(r)
    \/ \E r \in Requests : HandlerExcept(r)
    \/ Tick

SpecHandlerLive ==
    /\ InitHandler
    /\ [][NextHandlerTimed]_vars
    /\ \A r \in Requests : WF_vars(Respond(r)) /\ WF_vars(BgSchedule(r))

\* The service: the started scheduler with its loop, the requests of the
\* handler with their workers, and time.
InitService ==
    /\ now = 0
    /\ files = [f \in Names |-> Absent]
    /\ scheduled_files = <<>>
    /\ running = TRUE
    /\ cleanup_thread = 1
    /\ loop = [t \in Threads |-> IF t = 1 THEN [IdleLoop EXCEPT !.pc = "check"]
                                            ELSE IdleLoop]
    /\ ctl = [c \in Callers |-> "idle"]
    /\ callers = {1}
    /\ stop_called = FALSE
    /\ created = {}
    /\ sched_left = MaxRequests
    /\ fail_cycle = [f \in Names |-> 0]
    /\ req = [r \in Requests |-> IdleReq]

NextService ==
    \/ \E r \in Requests, url \in URLs : Submit(r, url)
    \/ \E r \in Requests : Extract(r)
    \/ \E r \in Requests : Download(r)
    \/ \E r \in Requests : ConvertStart(r)
    \/ \E r \in Requests : ConvertExit(r)
    \/ \E r \in Requests : Finish(r)
    \/ \E r \in Requests : Except(r)
    \/ \E r \in Requests : Respond(r)
    \/ \E r \in Requests : BgSchedule(r)
    \/ \E r \in Requests : HandlerExcept(r)
    \/ \E t \in Threads : LoopCheck(t)
    \/ \E t \in Threads : ExpNext(t)
    \/ \E t \in Threads : ExpRemove(t)
    \/ \E t \in Threads : ExpDel(t)
    \/ \E t \in Threads : OldBegin(t)
    \/ \E t \in Threads : OldFile(t)
    \/ \E t \in Threads : LoopWake(t)
    \/ Tick

SpecService == InitService /\ [][NextService]_vars

\* ------------------------------------------------------------------ claims
\* A step of loop thread t removes file f from the downloads directory.
Removes(t, f) == loop'[t] # loop[t] /\ Exists(f) /\ files'[f] = Absent

\* C1: a scheduled file is deleted only after its expiry time, never before:
\* no step of the scheduler (expired-entry pass or old-file sweep) removes a
\* file at a time earlier than the expiry currently recorded for it.
C1_NeverBeforeExpiry ==
    [][\A t \in Threads, f \in Names :
         (Removes(t, f) /\ HasKey(scheduled_files, f))
             => now >= Lookup(scheduled_files, f)]_vars

\* C3: registering the same file name again keeps one entry, with the expiry
\* of the later call: every registration leaves exactly one entry for the
\* name, its expiry is the time of this call plus this call's ttl, and the
\* other entries are as they were.
Registers == sched_left' # sched_left
EntriesFor(d, k) == {i \in 1..Len(d) : d[i][1] = k}
C3_LaterRegistrationWins ==
    [][Registers =>
         \E p \in Paths, h \in TTLs :
             LET k == Basename(p) IN
             /\ Cardinality(EntriesFor(scheduled_files', k)) = 1
             /\ Lookup(scheduled_files', k) = now + h * Hour
             /\ Keys(scheduled_files') = Keys(scheduled_files) \cup {k}
             /\ Len(scheduled_files') = Cardinality(Keys(scheduled_files'))
             /\ \A j \in Keys(scheduled_files) \ {k} :
                    Lookup(scheduled_files', j) = Lookup(scheduled_files, j)]_vars

\* Two registrations at time 0 have left one entry: both named the same
\* file (nothing expires at time 0), and the entry carries the longer ttl.
C3_Witness ==
    /\ now = 0
    /\ sched_left = MaxSchedules - 2
    /\ Len(scheduled_files) = 1
    /\ scheduled_files[1][2] = (MaxAgeHours + 1) * Hour

\* C4: an expired entry whose file is not in the directory does not crash
\* the loop: handling it raises nothing (the pass goes on to the next entry,
\* the name queued for removal, files and running untouched), the removal
\* phase of the pass takes the queued name out of tracking, and a loop
\* thread ends only after stop().
C4_AbsentFileHarmless ==
    /\ [](\A t \in Threads : loop[t].pc = "done" => stop_called)
    /\ [][\A t \in Threads :
            /\ (/\ loop[t].pc = "exp_remove"
                /\ loop'[t] # loop[t]
                /\ ~Exists(loop[t].item[1]))
               => /\ loop'[t].pc = "exp_next"
                  /\ loop'[t].files_to_remove =
                         Append(loop[t].files_to_remove, loop[t].item[1])
                  /\ files' = files
                  /\ running' = running
            /\ (/\ loop[t].pc = "exp_del"
                /\ loop'[t] # loop[t]
                /\ loop[t].files_to_remove # <<>>)
               => ~HasKey(scheduled_files', Head(loop[t].files_to_remove))]_vars

\* A pass has queued, for removal from tracking, a name that was never a
\* file of the directory.
C4_Witness ==
    \E t \in Threads :
        /\ loop[t].pc \in {"exp_next", "exp_del"}
        /\ \E i \in 1..Len(loop[t].files_to_remove) :
               loop[t].files_to_remove[i] \notin created

\* C5: start() is idempotent: as long as stop() has not been called, there
\* is exactly one loop thread when running is set and none before, and a
\* start() that finds running set returns having changed nothing.
C5_StartIdempotent ==
    /\ [](~stop_called =>
            IF running THEN LiveLoops = {cleanup_thread} ELSE LiveLoops = {})
    /\ [][\A c \in Callers :
            (ctl'[c] = "start_noop" /\ ctl[c] # "start_noop")
                => /\ running
                   /\ UNCHANGED <<now, files, scheduled_files, running,
                                  cleanup_thread, loop, stop_called>>]_vars

\* A second start() has returned while the first one's loop is the only one.
C5_Witness ==
    /\ ~stop_called
    /\ \E c \in Callers : ctl[c] = "start_noop"
    /\ Cardinality(LiveLoops) = 1

\* C7: an expired entry leaves tracking whatever became of its file: when a
\* pass that no registration interleaved with finishes its removal phase, no
\* entry with expiry <= the pass's current_time is tracked; and such a pass
\* changes tracking only by deleting entries that had expired, so that every
\* entry with a later expiry stays, unchanged.
Undisturbed(t) == loop[t].sched_seen = sched_left
C7_ExpiredEntriesDropped ==
    [][\A t \in Threads :
         (loop'[t] # loop[t] /\ Undisturbed(t) /\ InPass(t)) =>
            /\ (loop[t].pc = "exp_del" /\ loop'[t].pc = "old_begin")
               => \A i \in 1..Len(scheduled_files) :
                      scheduled_files[i][2] > loop[t].current_time
            /\ scheduled_files' # scheduled_files
               => \E k \in Keys(scheduled_files) :
                      /\ Lookup(scheduled_files, k) <= loop[t].current_time
                      /\ scheduled_files' = DictDel(scheduled_files, k)]_vars

\* An undisturbed pass has finished its removal phase: an entry whose
\* removal from disk failed is gone from tracking (the file is still there),
\* and an entry that has not expired is still tracked.
C7_Witness ==
    \E t \in Threads :
        /\ loop[t].pc = "old_begin"
        /\ Undisturbed(t)
        /\ Len(scheduled_files) = 1
        /\ \E f \in Names : /\ fail_cycle[f] = 1
                            /\ Exists(f)
                            /\ ~HasKey(scheduled_files, f)

\* C9: an error inside an iteration does not end the loop: the thread sleeps
\* the backoff, which is shorter than the poll interval, then tests running
\* again and, if it is set, starts another pass; a loop thread ends only at
\* that test, and only when running is false.
C9_ErrorBacksOff ==
    [][\A t \in Threads :
         /\ (loop'[t].pc = "backoff" /\ loop[t].pc # "backoff")
            => /\ loop'[t].wake = now + BackoffSleep
               /\ loop'[t].wake < now + CleanupInterval
               /\ running' = running
         /\ (loop[t].pc = "backoff" /\ loop'[t] # loop[t])
            => /\ loop'[t].pc = "check"
               /\ now >= loop[t].wake
         /\ (loop[t].pc = "check" /\ loop'[t] # loop[t] /\ running)
            => loop'[t].pc = "exp_next"
         /\ (loop'[t].pc = "done" /\ loop[t].pc # "done")
            => /\ loop[t].pc = "check"
               /\ ~running]_vars

\* A loop thread is sleeping the backoff after an error.
C9_Witness == \E t \in Threads : loop[t].pc = "backoff"

\* C2: a file older than the maximum age is deleted without any schedule
\* entry: while the loop runs, a file of the directory whose mtime is older
\* than the maximum age and that has no entry is eventually gone, unless a
\* removal of it failed or stop() was called.  (Stated for the files that
\* are old an hour before the clock of the model stops.)
IsOldPlain(f) == files[f] < now - MaxAgeHours * Hour
OldAndUnscheduled(f) ==
    /\ Exists(f)
    /\ IsOldPlain(f)
    /\ ~HasKey(scheduled_files, f)
    /\ running
    /\ now <= (MaxHours - 1) * Hour
C6_StopEndsLoop ==
    /\ [][\A t \in Threads :
            (loop[t].pc = "check" /\ loop'[t].pc = "exp_next") => running]_vars
    /\ \A t \in Threads :
           (~running /\ Alive(t) /\ now <= (MaxHours - 1) * Hour)
               ~> (~Alive(t) \/ running)

\* stop() has returned and the loop thread has ended.
C6_Witness ==
    /\ \E c \in Callers : ctl[c] = "stopped"
    /\ loop[1].pc = "done"
    /\ ~running

\* A step of loop thread t attempts to remove file f (os.remove is called).
AttemptsRemoval(t, f) ==
    /\ loop'[t] # loop[t]
    /\ Exists(f)
    /\ \/ loop[t].pc = "exp_remove" /\ loop[t].item[1] = f
       \/ /\ loop[t].pc = "old_file"
          /\ loop[t].listing # <<>>
          /\ Head(loop[t].listing) = f
          /\ files[f] < loop[t].cutoff_time
FailedRemoval(t, f) == AttemptsRemoval(t, f) /\ files'[f] # Absent

FirstBlocked(r) == Len(req[r].attempts) >= 1 /\ req[r].attempts[1] = <<1, "blocked">>
FirstBlockedSecondOk(r) ==
    /\ FirstBlocked(r)
    /\ Len(req[r].attempts) >= 2
    /\ req[r].attempts[2] = <<2, "info">>
DownloadBegun(r) ==
    req[r].pc \in {"convert", "converting", "finish", "returned"}
        \/ (req[r].pc \in {"except", "raised"}
               /\ req[r].error \notin {"all_failed"} /\ req[r].download_opts # None)
C10_SecondConfigurationResult ==
    \A r \in Requests :
        /\ (FirstBlocked(r) /\ Len(req[r].attempts) = 1)
              => (req[r].pc = "extract" /\ req[r].i = 2)
        /\ FirstBlockedSecondOk(r) =>
              /\ Len(req[r].attempts) = 2
              /\ req[r].info = 2
              /\ req[r].successful_strategy = 2
              /\ req[r].pc # "extract"
              /\ req[r].pc = "download" \/ DownloadBegun(r)
              /\ DownloadBegun(r) => req[r].download_opts = 2
              /\ req[r].pc = "returned" => req[r].result.info = 2

\* The worker has returned a result after a blocked error on configuration
\* 1 and a success on configuration 2.
C10_Witness ==
    \E r \in Requests : FirstBlockedSecondOk(r) /\ req[r].pc = "returned"

\* C11: the fallback loop tries the configurations in list order, each at
\* most once, and stops at the first success; a blocked error always moves
\* on to the next configuration; another error moves on unless it occurred
\* on the last configuration, whose error aborts the request; the loop makes
\* at most NumStrategies attempts, and when every configuration has failed
\* the request fails (it never returns a result).
Failing(r) == req[r].pc \in {"except", "raised"}
C11_FallbackLoop ==
    \A r \in Requests :
        LET a == req[r].attempts
            n == Len(req[r].attempts)
        IN /\ n <= NumStrategies
           /\ \A k \in 1..n : a[k][1] = k
           /\ \A k \in 1..(n - 1) : a[k][2] # "info"
           /\ req[r].pc = "extract" => (n < NumStrategies /\ req[r].i = n + 1)
           /\ n >= 1 =>
                /\ a[n][2] = "info" =>
                      (req[r].pc # "extract" /\ req[r].successful_strategy = n)
                /\ (a[n][2] = "blocked" /\ n < NumStrategies) => req[r].pc = "extract"
                /\ (a[n][2] = "error" /\ n < NumStrategies) => req[r].pc = "extract"
                /\ (a[n][2] = "error" /\ n = NumStrategies)
                      => (Failing(r) /\ req[r].error = "tool_error")
                /\ (a[n][2] # "info" /\ n = NumStrategies)
                      => (Failing(r) /\ req[r].result = NoItem)
                /\ req[r].pc = "returned" => a[n][2] = "info"

\* Every configuration has been attempted, a blocked error came before the
\* last one, whose error was not a blocked one, and the request has failed.
C11_Witness ==
    \E r \in Requests :
        /\ Len(req[r].attempts) = NumStrategies
        /\ req[r].attempts[1][2] = "blocked"
        /\ req[r].attempts[2][2] = "error"
        /\ req[r].attempts[NumStrategies][2] = "error"
        /\ req[r].pc = "raised"

\* The class of the failure of request r, by its cause: every configuration
\* failed with a blocked error, or the text of the error caught tells it.
AllBlocked(r) ==
    /\ Len(req[r].attempts) = NumStrategies
    /\ \A k \in 1..NumStrategies : req[r].attempts[k][2] = "blocked"
FailureClass(r) ==
    IF req[r].error = "all_failed"
    THEN IF AllBlocked(r) THEN "blocked" ELSE "generic"
    ELSE IF "bot" \in req[r].text \/ "sign in" \in req[r].text THEN "blocked"
    ELSE IF "unavailable" \in req[r].text THEN "unavailable"
    ELSE IF "private" \in req[r].text THEN "private"
    ELSE IF "age" \in req[r].text /\ "restricted" \in req[r].text THEN "age-restricted"
    ELSE IF "copyright" \in req[r].text THEN "copyright"
    ELSE "generic"
ExpectedStatus(class) ==
    IF class = "blocked" THEN 429
    ELSE IF class = "unavailable" THEN 404
    ELSE IF class \in {"private", "age-restricted", "copyright"} THEN 400
    ELSE 500

\* C12: error classes are mapped to their HTTP status end to end: a request
\* whose worker failed is answered with 429 when retrieval was blocked
\* (every configuration failing with a blocked error included), 404 when
\* the video is unavailable, 400 when it is private, age restricted or
\* copyright protected, and 500 only for the other failures.
C12_StatusByErrorClass ==
    \A r \in Requests :
        (req[r].pc = "failed" /\ req[r].error # "invalid_url")
            => req[r].status = ExpectedStatus(FailureClass(r))

\* C13: on any failure of the worker, partial output is removed before the
\* classified error is raised: when download_video has raised and no removal
\* has failed, neither the downloaded file nor the output file of the
\* request remains in the directory.
NoRemovalFailed(r) == fail_cycle[VideoFile(r)] = 0 /\ fail_cycle[OutputFile(r)] = 0
C13_FailureLeavesNoFile ==
    \A r \in Requests :
        (req[r].pc = "raised" /\ NoRemovalFailed(r))
            => (~Exists(VideoFile(r)) /\ ~Exists(OutputFile(r)))

\* C14: a non-zero exit status of the transcoder becomes a failure: a result
\* is returned only after a run that exited with status 0 and with the
\* output file in place; after a run that exited non-zero the call raises,
\* no result (no file reference) is returned, the response is an error, and
\* no entry for the output file is registered.
Succeeded(r) == req[r].pc \in {"returned", "responded", "done"}
C14_NonZeroExitFails ==
    \A r \in Requests :
        /\ Succeeded(r) => (req[r].transcode = "ok" /\ Exists(OutputFile(r)))
        /\ req[r].transcode = "nonzero" =>
              /\ req[r].pc \in {"except", "raised", "failed"}
              /\ req[r].result = NoItem
              /\ req[r].status # 200
              /\ ~HasKey(scheduled_files, OutputFile(r))

\* A request has been answered with an error after its transcoder exited
\* non-zero, leaving a part of the output file.
C14_Witness ==
    \E r \in Requests :
        /\ req[r].transcode = "nonzero"
        /\ req[r].pc = "failed"
        /\ Exists(OutputFile(r))

Owner(f) == f[2]
InFlight(r) == req[r].pc \notin {"idle", "failed", "done"}

\* C16: in every reachable state, each file present in the downloads
\* directory is still being produced by an in-flight request, or has a
\* scheduled entry, or is older than the maximum age of the sweep.
C16_OutputFileInvariant ==
    \A f \in Names :
        Exists(f) => \/ InFlight(Owner(f))
                     \/ HasKey(scheduled_files, f)
                     \/ IsOldPlain(f)

\* C17: the unlocked sharing of the schedule map is benign: under every
\* interleaving of schedule_file_cleanup with a pass of the loop, an entry
\* leaves tracking only if the expiry recorded for it at that moment has
\* passed (an entry registered or overwritten during a pass is not dropped
\* by that pass).
C17_DroppedOnlyWhenExpired ==
    [][\A k \in Keys(scheduled_files) :
         ~HasKey(scheduled_files', k) => now >= Lookup(scheduled_files, k)]_vars

\* C18: at most one cleanup loop is alive at any time, after any sequence of
\* start() and stop() calls: there are never two loop threads, and so never
\* two of them executing cleanup passes.
C18_AtMostOneLoop ==
    /\ Cardinality(LiveLoops) <= 1
    /\ Cardinality({t \in Threads : InPass(t)}) <= 1

\* Request r is using its files: its download has written the video file
\* and download_video has not returned (or raised) yet.
Using(r) == req[r].pc \in {"convert", "converting", "finish"}

\* C19: the scheduler never deletes a file that an in-flight request is
\* still using: no step of a loop thread removes the downloaded file or the
\* output file of a request between its download and the return of
\* download_video, however long the transcode takes.
C19_InFlightFilesKept ==
    [][\A t \in Threads, r \in Requests :
         Using(r) => (~Removes(t, VideoFile(r)) /\ ~Removes(t, OutputFile(r)))]_vars

\* C20: the old-file sweep never modifies the schedule map and leaves every
\* file within the maximum age alone: a step of the sweep leaves tracking as
\* it is (the entry of a file it deletes stays, with its expiry), and
\* removes only files modified more than the maximum age ago; an entry
\* leaves tracking only in the removal phase of an expired-entry pass, and,
\* when no registration has interleaved with the pass, only with an expiry
\* that has passed.
InSweep(t) == loop[t].pc \in {"old_begin", "old_file"}
C20_SweepLeavesScheduleAlone ==
    [][/\ \A t \in Threads :
            (InSweep(t) /\ loop'[t] # loop[t]) =>
               /\ scheduled_files' = scheduled_files
               /\ \A f \in Names :
                      Removes(t, f) => files[f] < now - MaxAgeHours * Hour
       /\ \A k \in Keys(scheduled_files) :
            ~HasKey(scheduled_files', k) =>
               \E t \in Threads :
                   /\ loop[t].pc = "exp_del"
                   /\ loop'[t] # loop[t]
                   /\ Undisturbed(t) => Lookup(scheduled_files, k) <= now]_vars

\* The sweep has deleted a file whose only registration is still tracked,
\* with an expiry yet to come.
C20_Witness ==
    \E t \in Threads, f \in Names :
        /\ loop[t].pc = "old_file"
        /\ f \in created
        /\ ~Exists(f)
        /\ sched_left = MaxSchedules - 1
        /\ HasKey(scheduled_files, f)
        /\ Lookup(scheduled_files, f) > now

\* C21: a submit request whose URL names neither 'youtube.com' nor
\* 'youtu.be' is answered with HTTP status 400, and the worker is never
\* invoked for it: no configuration is attempted, no file of the request is
\* created, no result is returned and nothing is registered with the
\* scheduler.
NotYouTube(r) == req[r].url # "" /\ ~IsYouTube(req[r].url)
WorkerNotInvoked(r) ==
    /\ req[r].pc \in {"rejected", "failed"}
    /\ req[r].attempts = <<>>
    /\ req[r].info = None
    /\ req[r].temp_video_path = NoItem
    /\ req[r].result = NoItem
    /\ ~Exists(VideoFile(r))
    /\ ~Exists(OutputFile(r))
    /\ ~HasKey(scheduled_files, OutputFile(r))
C21_InvalidUrlRejected ==
    \A r \in Requests :
        NotYouTube(r) =>
            /\ WorkerNotInvoked(r)
            /\ req[r].pc = "failed" => req[r].status = 400
====
